---- MODULE Spec2Model ----
(***************************************************************************)
(* State-machine model of the OpenAPI -> MCP bridge:                       *)
(*   APIClient        (src/src/api-client.ts, lines 13-261)                *)
(*   OpenAPIMCPServer (src/src/api-client.ts, lines 282-391)               *)
(* JavaScript strings are TLA+ strings; Head/Tail/Len/SubSeq/\o act on     *)
(* them character by character.  Every other JavaScript value is a tagged  *)
(* record [t |-> <typeof>, ...].                                           *)
(***************************************************************************)
EXTENDS Integers, Sequences, FiniteSets, TLC

VARIABLES schema, options, phase, started, baseUrl, operations, tools, inv, res

vars == <<schema, options, phase, started, baseUrl, operations, tools, inv, res>>

(***************************************************************************)
(* Bounds of the model.                                                    *)
(***************************************************************************)
MaxOps == 2

MaxParams == 2

MaxMedia == 2

MaxProps == 2
\* invocations in flight at once in the concurrent specification
MaxCalls == 2

(***************************************************************************)
(* JavaScript values.                                                      *)
(***************************************************************************)
Undefined == [t |-> "undefined"]

Null == [t |-> "null"]

Str(s) == [t |-> "string", v |-> s]

Num(n) == [t |-> "number", v |-> n]

NaN == [t |-> "nan"]

Bool(b) == [t |-> "boolean", v |-> b]

Arr(a) == [t |-> "array", v |-> a]

Obj(keys, vals) == [t |-> "object", keys |-> keys, vals |-> vals]

(***************************************************************************)
(* Character classes and character-wise string functions.                  *)
(***************************************************************************)
LowerLetters == "abcdefghijklmnopqrstuvwxyz"

UpperLetters == "ABCDEFGHIJKLMNOPQRSTUVWXYZ"

Digits == "0123456789"

CharsOf(s) == {SubSeq(s, i, i) : i \in 1..Len(s)}

LowerSet == CharsOf(LowerLetters)

UpperSet == CharsOf(UpperLetters)

DigitSet == CharsOf(Digits)

AlnumSet == LowerSet \cup UpperSet \cup DigitSet

IndexIn(c, s) == CHOOSE i \in 1..Len(s) : SubSeq(s, i, i) = c

\* the character class [a-zA-Z0-9] of the regular expression on line 60
IsAlnum(c) == c \in AlnumSet

UpperChar(c) ==
    IF c \in LowerSet
    THEN SubSeq(UpperLetters, IndexIn(c, LowerLetters), IndexIn(c, LowerLetters))
    ELSE c

LowerChar(c) ==
    IF c \in UpperSet
    THEN SubSeq(LowerLetters, IndexIn(c, UpperLetters), IndexIn(c, UpperLetters))
    ELSE c

RECURSIVE MapChars(_, _)
MapChars(s, kind) ==
    IF s = "" THEN ""
    ELSE (CASE kind = "upper" -> UpperChar(Head(s))
            [] kind = "lower" -> LowerChar(Head(s))
            [] kind = "ident" -> (IF IsAlnum(Head(s)) THEN Head(s) ELSE "_")
            [] kind = "runs" ->
                 (IF IsAlnum(Head(s)) THEN Head(s)
                  ELSE IF Len(s) > 1 /\ ~IsAlnum(SubSeq(s, 2, 2)) THEN "" ELSE "_"))
         \o MapChars(Tail(s), kind)

ToUpperCase(s) == MapChars(s, "upper")

ToLowerCase(s) == MapChars(s, "lower")

\* pathKey.replace(/[^a-zA-Z0-9]+/g, '_'): one underscore per run
ReplaceNonAlnumRuns(s) == MapChars(s, "runs")

\* pathKey.replace(/[^a-zA-Z0-9]/g, '_'): one underscore per character
ReplaceNonAlnum(s) == MapChars(s, "ident")

(***************************************************************************)
(* JavaScript conversions: String(v), Number(v), String.prototype.trim,    *)
(* split(','), JSON.parse, encodeURIComponent, URLSearchParams.toString.   *)
(* Numbers are integers; strings that spell fractions, exponents, escapes  *)
(* or nested containers are outside the value pools of the model.          *)
(***************************************************************************)
IsDigit(c) == c \in DigitSet

IsSpace(c) == c \in {" ", "\t", "\n", "\r"}

RECURSIVE TrimStart(_)
TrimStart(s) == IF s # "" /\ IsSpace(Head(s)) THEN TrimStart(Tail(s)) ELSE s

RECURSIVE TrimEnd(_)
TrimEnd(s) ==
    IF s # "" /\ IsSpace(SubSeq(s, Len(s), Len(s)))
    THEN TrimEnd(SubSeq(s, 1, Len(s) - 1)) ELSE s

Trim(s) == TrimEnd(TrimStart(s))

AllDigits(s) == s # "" /\ \A i \in 1..Len(s) : IsDigit(SubSeq(s, i, i))

RECURSIVE DigitsValue(_)
DigitsValue(s) ==
    IF s = "" THEN 0
    ELSE 10 * DigitsValue(SubSeq(s, 1, Len(s) - 1))
         + (IndexIn(SubSeq(s, Len(s), Len(s)), Digits) - 1)

\* value of a trimmed numeric string
TrimmedToNumber(s) ==
    IF s = "" THEN Num(0)
    ELSE IF AllDigits(s) THEN Num(DigitsValue(s))
    ELSE IF Head(s) = "-" /\ AllDigits(Tail(s)) THEN Num(0 - DigitsValue(Tail(s)))
    ELSE IF Head(s) = "+" /\ AllDigits(Tail(s)) THEN Num(DigitsValue(Tail(s)))
    ELSE NaN

\* Number(string)
StringToNumber(str) == TrimmedToNumber(Trim(str))

RECURSIVE JoinValues(_, _)
RECURSIVE ToStr(_)
\* Array.prototype.join(sep): null and undefined elements become ''
JoinValues(a, sep) ==
    IF Len(a) = 0 THEN ""
    ELSE (IF a[1].t \in {"null", "undefined"} THEN "" ELSE ToStr(a[1]))
         \o (IF Len(a) = 1 THEN "" ELSE sep \o JoinValues(Tail(a), sep))

\* String(v)
ToStr(v) ==
    CASE v.t = "string" -> v.v
      [] v.t = "number" -> ToString(v.v)
      [] v.t = "nan" -> "NaN"
      [] v.t = "boolean" -> (IF v.v THEN "true" ELSE "false")
      [] v.t = "null" -> "null"
      [] v.t = "undefined" -> "undefined"
      [] v.t = "array" -> JoinValues(v.v, ",")
      [] v.t = "object" -> "[object Object]"

\* Number(v)
ToNumber(v) ==
    CASE v.t = "string" -> StringToNumber(v.v)
      [] v.t = "number" -> v
      [] v.t = "nan" -> NaN
      [] v.t = "boolean" -> (IF v.v THEN Num(1) ELSE Num(0))
      [] v.t = "null" -> Num(0)
      [] v.t = "undefined" -> NaN
      [] v.t = "array" -> StringToNumber(ToStr(v))
      [] v.t = "object" -> NaN

\* truthiness of a value (v || ..., !v)
Truthy(v) ==
    CASE v.t = "string" -> v.v # ""
      [] v.t = "number" -> v.v # 0
      [] v.t = "boolean" -> v.v
      [] v.t \in {"nan", "null", "undefined"} -> FALSE
      [] v.t \in {"array", "object"} -> TRUE

\* value.split(',').map(v => v.trim())
RECURSIVE SplitTrim(_, _, _)
SplitTrim(s, cur, acc) ==
    IF s = "" THEN Append(acc, Str(Trim(cur)))
    ELSE IF Head(s) = "," THEN SplitTrim(Tail(s), "", Append(acc, Str(Trim(cur))))
    ELSE SplitTrim(Tail(s), cur \o Head(s), acc)

StartsWith(s, p) == Len(s) >= Len(p) /\ SubSeq(s, 1, Len(p)) = p

Drop(s, n) == SubSeq(s, n + 1, Len(s))

\* length of the longest prefix of s made of digits
RECURSIVE DigitRun(_)
DigitRun(s) == IF s # "" /\ IsDigit(Head(s)) THEN 1 + DigitRun(Tail(s)) ELSE 0

\* position of the first double quote of s, 0 if none
RECURSIVE QuotePos(_, _)
QuotePos(s, i) ==
    IF i > Len(s) THEN 0
    ELSE IF SubSeq(s, i, i) = "\"" THEN i ELSE QuotePos(s, i + 1)

Parsed(v, rest) == [ok |-> TRUE, value |-> v, rest |-> rest]

NotParsed == [ok |-> FALSE, value |-> Undefined, rest |-> ""]

\* JSON number -?(0|[1-9][0-9]*): sign, digits of body, n of them
NumberOf(sign, body, n) ==
    IF n = 0 \/ (n > 1 /\ Head(body) = "0") THEN NotParsed
    ELSE Parsed(Num(sign * DigitsValue(SubSeq(body, 1, n))), Drop(body, n))

ParseNumber(s) ==
    IF StartsWith(s, "-") THEN NumberOf(-1, Tail(s), DigitRun(Tail(s)))
    ELSE NumberOf(1, s, DigitRun(s))

\* JSON string without escapes, closed by the quote at position q
StringOf(s, q) ==
    IF ~StartsWith(s, "\"") \/ q = 0 THEN NotParsed
    ELSE Parsed(Str(SubSeq(s, 2, q - 1)), Drop(s, q))

ParseString(s) == StringOf(s, QuotePos(s, 2))

RECURSIVE ParseValue(_)
RECURSIVE ParseElements(_, _)
RECURSIVE ParseMembers(_, _, _)
\* a JSON value at the head of s (s has no leading white space)
ValueAt(s) ==
    IF StartsWith(s, "true") THEN Parsed(Bool(TRUE), Drop(s, 4))
    ELSE IF StartsWith(s, "false") THEN Parsed(Bool(FALSE), Drop(s, 5))
    ELSE IF StartsWith(s, "null") THEN Parsed(Null, Drop(s, 4))
    ELSE IF StartsWith(s, "\"") THEN ParseString(s)
    ELSE IF StartsWith(s, "[]") THEN Parsed(Arr(<<>>), Drop(s, 2))
    ELSE IF StartsWith(s, "[") THEN ParseElements(Tail(s), <<>>)
    ELSE IF StartsWith(s, "{}") THEN Parsed(Obj(<<>>, <<>>), Drop(s, 2))
    ELSE IF StartsWith(s, "{") THEN ParseMembers(Tail(s), <<>>, <<>>)
    ELSE ParseNumber(s)

ParseValue(str) == ValueAt(TrimStart(str))

\* after the element e of an array: r is what follows it
ElementThen(acc, e, r) ==
    IF ~e.ok THEN NotParsed
    ELSE IF StartsWith(r, ",") THEN ParseElements(Tail(r), Append(acc, e.value))
    ELSE IF StartsWith(r, "]") THEN Parsed(Arr(Append(acc, e.value)), Tail(r))
    ELSE NotParsed

ElementOf(acc, e) == ElementThen(acc, e, IF e.ok THEN TrimStart(e.rest) ELSE "")

ParseElements(s, acc) == ElementOf(acc, ParseValue(s))

\* after the member k : e of an object: r is what follows it
MemberThen(keys, vals, k, e, r) ==
    IF ~e.ok THEN NotParsed
    ELSE IF StartsWith(r, ",")
         THEN ParseMembers(Tail(r), Append(keys, k.value.v), Append(vals, e.value))
    ELSE IF StartsWith(r, "}")
         THEN Parsed(Obj(Append(keys, k.value.v), Append(vals, e.value)), Tail(r))
    ELSE NotParsed

MemberValue(keys, vals, k, e) ==
    MemberThen(keys, vals, k, e, IF e.ok THEN TrimStart(e.rest) ELSE "")

\* after the key k of a member: c is what follows it
MemberKey(keys, vals, k, c) ==
    IF ~k.ok \/ ~StartsWith(c, ":") THEN NotParsed
    ELSE MemberValue(keys, vals, k, ParseValue(Tail(c)))

MemberOf(keys, vals, k) == MemberKey(keys, vals, k, IF k.ok THEN TrimStart(k.rest) ELSE "")

ParseMembers(s, keys, vals) == MemberOf(keys, vals, ParseString(TrimStart(s)))

ParseResult(r) ==
    IF r.ok /\ TrimStart(r.rest) = ""
    THEN [threw |-> FALSE, value |-> r.value]
    ELSE [threw |-> TRUE,
          error |-> [name |-> "SyntaxError", message |-> "Unexpected token in JSON"]]

\* JSON.parse(s): the parsed value, or a thrown SyntaxError
JSONParse(s) == ParseResult(ParseValue(s))

\* %XX of the characters that the value pools contain
PercentCode(c) ==
    CASE c = " " -> "%20" [] c = "\"" -> "%22" [] c = "$" -> "%24" [] c = "&" -> "%26"
      [] c = "+" -> "%2B" [] c = "," -> "%2C" [] c = "/" -> "%2F" [] c = ":" -> "%3A"
      [] c = ";" -> "%3B" [] c = "=" -> "%3D" [] c = "?" -> "%3F" [] c = "[" -> "%5B"
      [] c = "]" -> "%5D" [] c = "{" -> "%7B" [] c = "}" -> "%7D"
      [] c = "!" -> "%21" [] c = "'" -> "%27" [] c = "(" -> "%28" [] c = ")" -> "%29"
      [] c = "~" -> "%7E"

RECURSIVE EncodeChars(_, _)
EncodeChars(s, form) ==
    IF s = "" THEN ""
    ELSE (LET c == Head(s)
          IN IF IsAlnum(c) \/ c \in {"-", "_", "."} THEN c
             ELSE IF ~form /\ c \in {"!", "~", "*", "'", "(", ")"} THEN c
             ELSE IF form /\ c = "*" THEN c
             ELSE IF form /\ c = " " THEN "+"
             ELSE PercentCode(c))
         \o EncodeChars(Tail(s), form)

encodeURIComponent(s) == EncodeChars(s, FALSE)

\* position of the first occurrence of pat in s, 0 if none
RECURSIVE FindFrom(_, _, _)
FindFrom(s, pat, i) ==
    IF i + Len(pat) - 1 > Len(s) THEN 0
    ELSE IF SubSeq(s, i, i + Len(pat) - 1) = pat THEN i
    ELSE FindFrom(s, pat, i + 1)

Contains(s, pat) == FindFrom(s, pat, 1) # 0

ReplaceAt(s, pat, rep, i) ==
    IF i = 0 THEN s
    ELSE SubSeq(s, 1, i - 1) \o rep \o SubSeq(s, i + Len(pat), Len(s))

\* String.prototype.replace(pat, rep) with a string pattern: first occurrence only
ReplaceFirst(s, pat, rep) == ReplaceAt(s, pat, rep, FindFrom(s, pat, 1))

\* Object.entries(v) of an object or an array
EntryKeys(v) ==
    IF v.t = "array" THEN [i \in 1..Len(v.v) |-> ToString(i - 1)] ELSE v.keys

EntryVals(v) == IF v.t = "array" THEN v.v ELSE v.vals

\* new URLSearchParams() ... append(key, String(value)) ... toString()
RECURSIVE FormPairs(_, _, _)
FormPairs(keys, vals, i) ==
    IF i > Len(keys) THEN ""
    ELSE (IF i > 1 THEN "&" ELSE "")
         \o EncodeChars(keys[i], TRUE) \o "=" \o EncodeChars(ToStr(vals[i]), TRUE)
         \o FormPairs(keys, vals, i + 1)

RECURSIVE JSONStringify(_)
RECURSIVE StringifyItems(_, _, _)
\* JSON.stringify(v) of a value without undefined parts
JSONStringify(v) ==
    CASE v.t = "string" -> "\"" \o v.v \o "\""
      [] v.t = "number" -> ToString(v.v)
      [] v.t = "boolean" -> (IF v.v THEN "true" ELSE "false")
      [] v.t \in {"null", "nan"} -> "null"
      [] v.t = "array" -> "[" \o StringifyItems(<<>>, v.v, 1) \o "]"
      [] v.t = "object" -> "{" \o StringifyItems(v.keys, v.vals, 1) \o "}"

StringifyItems(keys, vals, i) ==
    IF i > Len(vals) THEN ""
    ELSE (IF i > 1 THEN "," ELSE "")
         \o (IF Len(keys) > 0 THEN "\"" \o keys[i] \o "\":" ELSE "")
         \o JSONStringify(vals[i])
         \o StringifyItems(keys, vals, i + 1)

NewError(message) == [name |-> "Error", message |-> message]

(***************************************************************************)
(* The documents.                                                          *)
(***************************************************************************)
Param(name, in, required, type) ==
    [name |-> name, in |-> in, required |-> required, type |-> type]

NoBody == [declared |-> FALSE, content |-> <<>>, required |-> FALSE]

Body(content, required) == [declared |-> TRUE, content |-> content, required |-> required]

Operation(operationId, parameters, requestBody) ==
    [operationId |-> operationId, parameters |-> parameters, requestBody |-> requestBody]

PathItem(parameters, ops) == [null |-> FALSE, parameters |-> parameters, ops |-> ops]

NullPathItem == [null |-> TRUE, parameters |-> <<>>, ops |-> [k \in {} |-> NoBody]]

Document(servers, paths) == [servers |-> servers, paths |-> paths]

(***************************************************************************)
(* APIClient: initialize, getBaseUrl, parseOperations.                     *)
(***************************************************************************)
Methods == <<"get", "post", "put", "patch", "delete", "options", "head">>

EmptyMap == [k \in {} |-> Undefined]

MapSet(m, k, v) == [x \in DOMAIN m \cup {k} |-> IF x = k THEN v ELSE m[x]]

\* operation.operationId || `${method}_${pathKey.replace(...)}`
OperationIdOf(method, pathKey, operation) ==
    IF operation.operationId # "" THEN operation.operationId
    ELSE method \o "_" \o ReplaceNonAlnum(pathKey)

OperationInfo(method, pathKey, pathItem, operation) ==
    [method |-> ToUpperCase(method),
     path |-> pathKey,
     operation |-> operation,
     parameters |-> pathItem.parameters \o operation.parameters,
     requestBody |-> operation.requestBody]

RECURSIVE ParseMethods(_, _, _, _)
ParseMethods(pathKey, pathItem, m, ops) ==
    IF m > Len(Methods) THEN ops
    ELSE IF Methods[m] \notin DOMAIN pathItem.ops
         THEN ParseMethods(pathKey, pathItem, m + 1, ops)
         ELSE LET operation == pathItem.ops[Methods[m]]
              IN ParseMethods(pathKey, pathItem, m + 1,
                     MapSet(ops, OperationIdOf(Methods[m], pathKey, operation),
                            OperationInfo(Methods[m], pathKey, pathItem, operation)))

RECURSIVE ParsePaths(_, _, _)
ParsePaths(paths, p, ops) ==
    IF p > Len(paths) THEN ops
    ELSE IF paths[p].item.null
         THEN ParsePaths(paths, p + 1, ops)
         ELSE ParsePaths(paths, p + 1, ParseMethods(paths[p].key, paths[p].item, 1, ops))

parseOperations(doc, ops) == ParsePaths(doc.paths, 1, ops)

\* completion of a call: a returned value or a thrown error
Return(v) == [threw |-> FALSE, value |-> v]

Throw(e) == [threw |-> TRUE, error |-> e]

getBaseUrl(doc) ==
    IF Len(doc.servers) > 0 THEN Return(doc.servers[1])
    ELSE Throw([name |-> "Error",
                message |-> "No server URL found in OpenAPI schema and no base URL provided"])

\* this.getBaseUrl(schema) with this.options.baseUrl as the fallback
ResolveBaseUrlServerFirst(opts, doc) ==
    IF Len(doc.servers) > 0 THEN Return(doc.servers[1])
    ELSE IF opts.baseUrl # "" THEN Return(opts.baseUrl) ELSE getBaseUrl(doc)

\* this.options.baseUrl || this.getBaseUrl(schema)
ResolveBaseUrl(opts, doc) ==
    IF opts.baseUrl # "" THEN Return(opts.baseUrl) ELSE getBaseUrl(doc)

(***************************************************************************)
(* Schema loader (normalisation) and tool generator, modelled from their   *)
(* tests and the specification.                                            *)
(***************************************************************************)
\* identifier given to an operation that declares none
\* (get + /test -> get__test, get + /api/v1/complex-path/{id} -> get__api_v1_complex_path__id_)
GeneratedId(method, pathKey) == method \o "_" \o MapChars(pathKey, "ident")

NormalizeItem(pathKey, item) ==
    IF item.null THEN item
    ELSE [item EXCEPT !.ops =
            [k \in DOMAIN item.ops |->
                IF item.ops[k].operationId = ""
                   /\ \E m \in 1..Len(Methods) : Methods[m] = k
                THEN [item.ops[k] EXCEPT !.operationId = GeneratedId(k, pathKey)]
                ELSE item.ops[k]]]

loadSchema(doc) ==
    [doc EXCEPT !.paths =
        [p \in 1..Len(doc.paths) |->
            [key |-> doc.paths[p].key,
             item |-> NormalizeItem(doc.paths[p].key, doc.paths[p].item)]]]

\* the names of the parameters with required: true, in declaration order
RECURSIVE RequiredParamNames(_)
RequiredParamNames(parameters) ==
    IF Len(parameters) = 0 THEN <<>>
    ELSE (IF Head(parameters).required THEN <<Head(parameters).name>> ELSE <<>>)
         \o RequiredParamNames(Tail(parameters))

\* "body" appended whenever a request body is declared
RequiredNamesBodyAlways(parameters, requestBody) ==
    RequiredParamNames(parameters)
    \o (IF requestBody.declared THEN <<"body">> ELSE <<>>)

\* inputSchema.required: the required parameter names, then "body" iff the
\* request body is marked required
RequiredNames(parameters, requestBody) ==
    RequiredParamNames(parameters)
    \o (IF requestBody.declared /\ requestBody.required THEN <<"body">> ELSE <<>>)

\* the input schema of the tool of an operation (properties left out)
InputSchema(pathItem, operation) ==
    [type |-> "object",
     required |-> RequiredNames(pathItem.parameters \o operation.parameters,
                                operation.requestBody),
     additionalProperties |-> FALSE]

RECURSIVE ToolsOfMethods(_, _, _, _)
ToolsOfMethods(pathKey, pathItem, m, acc) ==
    IF m > Len(Methods) THEN acc
    ELSE IF Methods[m] \notin DOMAIN pathItem.ops
         THEN ToolsOfMethods(pathKey, pathItem, m + 1, acc)
         ELSE ToolsOfMethods(pathKey, pathItem, m + 1,
                  Append(acc, [name |->
                      IF pathItem.ops[Methods[m]].operationId # ""
                      THEN pathItem.ops[Methods[m]].operationId
                      ELSE GeneratedId(Methods[m], pathKey),
                               inputSchema |->
                      InputSchema(pathItem, pathItem.ops[Methods[m]])]))

RECURSIVE ToolsOfPaths(_, _, _)
ToolsOfPaths(paths, p, acc) ==
    IF p > Len(paths) THEN acc
    ELSE IF paths[p].item.null
         THEN ToolsOfPaths(paths, p + 1, acc)
         ELSE ToolsOfPaths(paths, p + 1, ToolsOfMethods(paths[p].key, paths[p].item, 1, acc))

generateTools(doc) == ToolsOfPaths(doc.paths, 1, <<>>)

(***************************************************************************)
(* APIClient.executeOperation up to the outbound call.                     *)
(***************************************************************************)
ArgOf(args, name) == IF name \in DOMAIN args THEN args[name] ELSE Undefined

CoercionError(param, what, value) ==
    Throw(NewError("Parameter " \o param.name \o " must be " \o what \o ", got: " \o ToStr(value)))

\* num, with no isNaN test
NumberUnchecked(param, value, num) == Return(num)

\* isNaN(num) ? throw : num
NumberOrThrow(param, value, num) ==
    IF num = NaN THEN CoercionError(param, "a valid number", value) ELSE Return(num)

\* try { return JSON.parse(value) } catch { return [value] }
ParsedOrWhole(s, parsed) ==
    IF parsed.threw THEN Return(Arr(<<Str(s)>>)) ELSE Return(parsed.value)

\* try { return JSON.parse(value) } catch { return value.split(',').map(v => v.trim()) }
ParsedOrSplit(s, parsed) ==
    IF parsed.threw THEN Return(Arr(SplitTrim(s, "", <<>>))) ELSE Return(parsed.value)

processParameterValue(param, value) ==
    IF param.type = "none" THEN Return(value)
    ELSE CASE param.type \in {"integer", "number"} ->
                NumberOrThrow(param, value, ToNumber(value))
           [] param.type = "boolean" ->
                (IF value.t = "boolean" THEN Return(value)
                 ELSE IF value.t = "string" /\ ToLowerCase(value.v) = "true" THEN Return(Bool(TRUE))
                 ELSE IF value.t = "string" /\ ToLowerCase(value.v) = "false" THEN Return(Bool(FALSE))
                 ELSE CoercionError(param, "a boolean", value))
           [] param.type = "array" ->
                (IF value.t = "array" THEN Return(value)
                 ELSE IF value.t = "string" THEN ParsedOrSplit(value.v, JSONParse(value.v))
                 ELSE CoercionError(param, "an array", value))
           [] OTHER -> Return(Str(ToStr(value)))

HeaderOf(headers, name) == IF name \in DOMAIN headers THEN Str(headers[name]) ELSE Undefined

Includes(contentTypes, ct) == \E i \in 1..Len(contentTypes) : contentTypes[i] = ct

\* headers['Content-Type'] || headers['content-type']
ExistingContentType(headers) ==
    IF Truthy(HeaderOf(headers, "Content-Type")) THEN HeaderOf(headers, "Content-Type")
    ELSE HeaderOf(headers, "content-type")

\* return contentTypes[0]
FirstContentType(contentTypes) ==
    IF Len(contentTypes) > 0 THEN Str(contentTypes[1]) ELSE Undefined

\* lines 223-233: the choice among the declared media types
PreferredContentType(contentTypes) ==
    IF Includes(contentTypes, "application/json") THEN Str("application/json")
    ELSE IF Includes(contentTypes, "application/xml") THEN Str("application/xml")
    ELSE IF Includes(contentTypes, "text/xml") THEN Str("text/xml")
    ELSE IF Includes(contentTypes, "application/x-www-form-urlencoded")
         THEN Str("application/x-www-form-urlencoded")
    ELSE IF Includes(contentTypes, "multipart/form-data") THEN Str("multipart/form-data")
    ELSE IF Len(contentTypes) > 0 THEN Str(contentTypes[1])
    ELSE Undefined

determineContentType(requestBody, headers) ==
    IF Truthy(ExistingContentType(headers)) THEN ExistingContentType(headers)
    ELSE PreferredContentType(requestBody.content)

\* return body
processRequestBodyRaw(body, contentType) == Return(body)

processRequestBody(body, contentType) ==
    IF ~Truthy(contentType) THEN Return(body)
    ELSE CASE contentType.v = "application/json" ->
                (IF body.t = "string" THEN JSONParse(body.v) ELSE Return(body))
           [] contentType.v = "application/x-www-form-urlencoded" ->
                (IF body.t \in {"object", "array"}
                 THEN Return(Str(FormPairs(EntryKeys(body), EntryVals(body), 1)))
                 ELSE Return(body))
           [] OTHER -> Return(body)

\* the state of the parameter loop (lines 93-99)
LoopStart(url) ==
    [url |-> url, queryParams |-> EmptyMap, headers |-> EmptyMap,
     missingRequiredParams |-> <<>>, threw |-> FALSE, error |-> Undefined]

\* value === undefined
IsUndefined(value) == value.t = "undefined"

\* value === undefined || value === null
IsAbsent(value) == value.t \in {"undefined", "null"}

\* `${param.name} (${param.in})`
MissingEntry(param) == param.name \o " (" \o param.in \o ")"

\* lines 114-124 with the path value substituted as it is
RouteUnencoded(st, param, processed) ==
    IF processed.threw
    THEN [st EXCEPT !.threw = TRUE, !.error = processed.error]
    ELSE CASE param.in = "path" ->
                [st EXCEPT !.url = ReplaceFirst(@, "{" \o param.name \o "}",
                                       ToStr(processed.value))]
           [] param.in = "query" ->
                [st EXCEPT !.queryParams = MapSet(@, param.name, processed.value)]
           [] param.in = "header" ->
                [st EXCEPT !.headers = MapSet(@, param.name, ToStr(processed.value))]
           [] OTHER -> st

\* lines 114-124: the processed value goes where param.in says
Route(st, param, processed) ==
    IF processed.threw
    THEN [st EXCEPT !.threw = TRUE, !.error = processed.error]
    ELSE CASE param.in = "path" ->
                [st EXCEPT !.url = ReplaceFirst(@, "{" \o param.name \o "}",
                                       encodeURIComponent(ToStr(processed.value)))]
           [] param.in = "query" ->
                [st EXCEPT !.queryParams = MapSet(@, param.name, processed.value)]
           [] param.in = "header" ->
                [st EXCEPT !.headers = MapSet(@, param.name, ToStr(processed.value))]
           [] OTHER -> st

\* one iteration of the parameter loop (lines 101-125)
LoopStep(st, param, args) ==
    IF IsAbsent(ArgOf(args, param.name))
    THEN (IF param.required
          THEN [st EXCEPT !.missingRequiredParams = Append(@, MissingEntry(param))]
          ELSE st)
    ELSE Route(st, param, processParameterValue(param, ArgOf(args, param.name)))

RECURSIVE ParamLoop(_, _, _, _)
ParamLoop(parameters, args, k, st) ==
    IF k > Len(parameters) \/ st.threw THEN st
    ELSE ParamLoop(parameters, args, k + 1, LoopStep(st, parameters[k], args))

RECURSIVE JoinStrings(_, _)
JoinStrings(a, sep) ==
    IF Len(a) = 0 THEN ""
    ELSE a[1] \o (IF Len(a) = 1 THEN "" ELSE sep \o JoinStrings(Tail(a), sep))

\* `Missing required parameters: ${missingRequiredParams[0]}`
MissingMessageFirst(missing) == "Missing required parameters: " \o missing[1]

\* `Missing required parameters: ${missingRequiredParams.join(', ')}`
MissingMessage(missing) == "Missing required parameters: " \o JoinStrings(missing, ", ")

\* this.client.defaults.headers.common of a fresh axios instance
DefaultsCommon == [k \in {"Accept"} |-> "application/json, text/plain, */*"]

MapMerge(a, b) == [k \in DOMAIN a \cup DOMAIN b |-> IF k \in DOMAIN b THEN b[k] ELSE a[k]]

\* lines 141-147
RequestConfig(info, st, headers, data) ==
    [method |-> info.method,
     url |-> st.url,
     params |-> st.queryParams,
     headers |-> MapMerge(DefaultsCommon, headers),
     data |-> data]

\* lines 136-138
WithContentType(headers, contentType) ==
    IF Truthy(contentType) /\ ~Truthy(HeaderOf(headers, "Content-Type"))
    THEN MapSet(headers, "Content-Type", contentType.v)
    ELSE headers

\* lines 134-147 given the content type and the processed body
ConfigWithBody(info, st, contentType, body) ==
    IF body.threw THEN Throw(body.error)
    ELSE Return(RequestConfig(info, st, WithContentType(st.headers, contentType), body.value))

\* lines 133-147 given the content type
EncodeBody(info, args, st, contentType) ==
    ConfigWithBody(info, st, contentType, processRequestBody(ArgOf(args, "body"), contentType))

\* lines 131-147: body, content type, request configuration
BuildConfig(info, args, st) ==
    IF info.requestBody.declared /\ ArgOf(args, "body") # Undefined
    THEN EncodeBody(info, args, st, determineContentType(info.requestBody, st.headers))
    ELSE Return(RequestConfig(info, st, st.headers, Undefined))

\* lines 127-147: after the parameter loop
AfterLoop(info, args, st) ==
    IF st.threw THEN Throw(st.error)
    ELSE IF Len(st.missingRequiredParams) > 0
    THEN Throw(NewError(MissingMessage(st.missingRequiredParams)))
    ELSE BuildConfig(info, args, st)

\* lines 90-147 for the registry entry info
PrepareFor(info, base, args) ==
    AfterLoop(info, args, ParamLoop(info.parameters, args, 1, LoopStart(base \o info.path)))

\* lines 84-147 without the guard of lines 86-88
PrepareRequestUnguarded(ops, base, operationId, args) ==
    IF operationId \notin DOMAIN ops
    THEN Throw([name |-> "TypeError",
                message |-> "Cannot destructure property 'method' of 'operationInfo' as it is undefined."])
    ELSE PrepareFor(ops[operationId], base, args)

\* executeOperation, lines 84-147: the request configuration handed to
\* this.client.request, or the error thrown before the call
PrepareRequest(ops, base, operationId, args) ==
    IF operationId \notin DOMAIN ops
    THEN Throw(NewError("Operation " \o operationId \o " not found"))
    ELSE PrepareFor(ops[operationId], base, args)

(***************************************************************************)
(* executeOperation after the outbound call (lines 149-173).               *)
(***************************************************************************)
IsSuccess(status) == status >= 200 /\ status < 300

\* data || {}
DataOrEmpty(data) == IF Truthy(data) THEN data ELSE Obj(<<>>, <<>>)

\* the AxiosError that client.request rejects with
AxiosError(config, resp) ==
    IF resp.kind = "response"
    THEN [isAxiosError |-> TRUE, hasResponse |-> TRUE,
          message |-> "Request failed with status code " \o ToString(resp.status),
          status |-> Num(resp.status), statusText |-> Str(resp.statusText),
          data |-> resp.data, config |-> config]
    ELSE [isAxiosError |-> TRUE, hasResponse |-> FALSE,
          message |-> resp.message,
          status |-> Undefined, statusText |-> Undefined,
          data |-> Undefined, config |-> config]

\* the message of the error thrown on line 170
HttpErrorMessage(error) ==
    "HTTP " \o ToStr(error.status) \o ": "
    \o (IF Truthy(error.statusText) THEN error.statusText.v ELSE error.message)
    \o " - " \o JSONStringify(DataOrEmpty(error.data))

\* the completion of executeOperation once client.request has settled
Complete(config, resp) ==
    IF resp.kind = "response" /\ IsSuccess(resp.status)
    THEN Return([status |-> resp.status,
                 statusText |-> resp.statusText,
                 headers |-> resp.headers,
                 data |-> resp.data,
                 url |-> config.url,
                 method |-> ToUpperCase(config.method)])
    ELSE IF resp.kind \in {"response", "network"}
    THEN Throw(NewError(HttpErrorMessage(AxiosError(config, resp))))
    ELSE Throw(resp.error)

(***************************************************************************)
(* Documents of the indexing specification: up to MaxOps operations spread *)
(* over paths and method keys, with and without declared identifiers.      *)
(***************************************************************************)
IndexPaths == {"/a-b", "/a_b", "/u/{id}", "/api/v1/complex-path/{id}"}

IndexKeys == {"get", "head", "trace"}

IndexIds == {"", "getA", "get__a_b"}

IndexEntries == [path : IndexPaths, key : IndexKeys, operationId : IndexIds]

IdPath == Param("id", "path", TRUE, "string")

IdQuery == Param("id", "query", FALSE, "integer")

QQuery == Param("q", "query", TRUE, "string")

IndexShapes ==
    { [servers |-> <<"http://s1", "http://s2">>, pathParams |-> <<>>, opParams |-> <<>>, nullItem |-> FALSE],
      [servers |-> <<"http://s1">>, pathParams |-> <<IdPath>>, opParams |-> <<>>, nullItem |-> TRUE],
      [servers |-> <<"http://s1">>, pathParams |-> <<IdPath, QQuery>>, opParams |-> <<IdQuery, QQuery>>, nullItem |-> FALSE],
      [servers |-> <<>>, pathParams |-> <<>>, opParams |-> <<QQuery, IdQuery>>, nullItem |-> TRUE] }

\* well-formed entry lists: one operation per (path, key), declared identifiers unique
WellFormedEntries(es) ==
    \A i, j \in 1..Len(es) :
        i < j => /\ ~(es[i].path = es[j].path /\ es[i].key = es[j].key)
                 /\ ~(es[i].operationId # "" /\ es[i].operationId = es[j].operationId)

IndexEntryLists ==
    {es \in UNION {[1..n -> IndexEntries] : n \in 1..MaxOps} : WellFormedEntries(es)}

\* the paths of an entry list, in order of first appearance
RECURSIVE PathOrder(_, _, _)
PathOrder(es, i, acc) ==
    IF i > Len(es) THEN acc
    ELSE IF \E j \in 1..Len(acc) : acc[j] = es[i].path
         THEN PathOrder(es, i + 1, acc)
         ELSE PathOrder(es, i + 1, Append(acc, es[i].path))

ItemOf(es, shape, path) ==
    PathItem(shape.pathParams,
             [k \in {es[i].key : i \in {j \in 1..Len(es) : es[j].path = path}} |->
                 LET i == CHOOSE j \in 1..Len(es) : es[j].path = path /\ es[j].key = k
                 IN Operation(es[i].operationId, shape.opParams, NoBody)])

IndexDocument(es, shape) ==
    LET order == PathOrder(es, 1, <<>>)
        items == [p \in 1..Len(order) |-> [key |-> order[p], item |-> ItemOf(es, shape, order[p])]]
    IN Document(shape.servers,
                IF shape.nullItem THEN <<[key |-> "/n", item |-> NullPathItem]>> \o items ELSE items)

IndexDocuments == {IndexDocument(es, shape) : es \in IndexEntryLists, shape \in IndexShapes}

(***************************************************************************)
(* Lifecycle.                                                              *)
(***************************************************************************)
\* no schema is being resolved
NoResolution == [defs |-> EmptyMap, work |-> <<>>, out |-> {}]

NoCall ==
    [pc |-> "idle", via |-> "", name |-> "", args |-> EmptyMap, sent |-> 0,
     config |-> Undefined, response |-> Undefined, outcome |-> Undefined,
     reply |-> Undefined]

\* APIClient.initialize on a freshly constructed client
Initialize ==
    /\ phase = "new"
    /\ LET b == ResolveBaseUrl(options, schema)
       IN IF b.threw
          THEN /\ phase' = "failed"
               /\ UNCHANGED <<baseUrl, operations>>
          ELSE /\ phase' = "initialized"
               /\ baseUrl' = b.value
               /\ operations' = parseOperations(schema, operations)
    /\ UNCHANGED <<schema, options, started, tools, inv, res>>

\* start() with the transport connected before the schema is loaded
StartOrderConnectFirst == <<"connect", "loadSchema", "initialize", "generateTools">>

\* the steps of OpenAPIMCPServer.start, in program order (lines 372-383)
StartOrder == <<"loadSchema", "initialize", "generateTools", "connect">>

\* the transport is connected: requests reach the handlers
Connected == \E k \in 1..started : StartOrder[k] = "connect"

\* the phase after a step of start() that did not throw
AfterStep(n) == IF n = Len(StartOrder) THEN "serving" ELSE "starting"

\* OpenAPIMCPServer.start runs its next step: loadSchema, initialize,
\* generateTools, connect; a step that throws ends start()
Start ==
    /\ phase \in {"new", "starting"}
    /\ started < Len(StartOrder)
    /\ started' = started + 1
    /\ CASE StartOrder[started + 1] = "loadSchema" ->
              /\ schema' = loadSchema(schema)
              /\ phase' = AfterStep(started + 1)
              /\ UNCHANGED <<baseUrl, operations, tools>>
         [] StartOrder[started + 1] = "initialize" ->
              /\ IF ResolveBaseUrl(options, schema).threw
                 THEN /\ phase' = "failed"
                      /\ UNCHANGED <<baseUrl, operations>>
                 ELSE /\ phase' = AfterStep(started + 1)
                      /\ baseUrl' = ResolveBaseUrl(options, schema).value
                      /\ operations' = parseOperations(schema, operations)
              /\ UNCHANGED <<schema, tools>>
         [] StartOrder[started + 1] = "generateTools" ->
              /\ tools' = generateTools(schema)
              /\ phase' = AfterStep(started + 1)
              /\ UNCHANGED <<schema, baseUrl, operations>>
         [] StartOrder[started + 1] = "connect" ->
              /\ phase' = AfterStep(started + 1)
              /\ UNCHANGED <<schema, baseUrl, operations, tools>>
    /\ UNCHANGED <<options, inv, res>>

InitIndex ==
    /\ schema \in IndexDocuments
    /\ options = [baseUrl |-> ""]
    /\ phase = "new"
    /\ started = 0
    /\ baseUrl = ""
    /\ operations = EmptyMap
    /\ tools = <<>>
    /\ inv = [i \in {1} |-> NoCall]
    /\ res = NoResolution

NextIndex == Initialize \/ Start

SpecIndex == InitIndex /\ [][NextIndex]_vars

(***************************************************************************)
(* Indexing claims (checked under SpecIndex).                              *)
(***************************************************************************)
VerbSet == {"get", "post", "put", "patch", "delete", "options", "head"}

\* the (path index, verb) pairs of a document that declare an operation
DeclaredOps(doc) ==
    {pk \in (1..Len(doc.paths)) \X VerbSet :
        ~doc.paths[pk[1]].item.null /\ pk[2] \in DOMAIN doc.paths[pk[1]].item.ops}

\* the declared operations that carry no identifier
UnnamedOps(doc) ==
    {pk \in DeclaredOps(doc) : doc.paths[pk[1]].item.ops[pk[2]].operationId = ""}

\* C9: index(document) has exactly one registry entry per operation (as many
\* entries as operations and as generated tools), and the parameter list of
\* the entry of each operation is the path-item-level parameters followed by
\* the operation-level parameters.
C9_OneEntryPerOperation ==
    /\ phase \in {"initialized", "serving"} =>
          Cardinality(DOMAIN operations) = Cardinality(DeclaredOps(schema))
    /\ phase = "serving" => Cardinality(DOMAIN operations) = Len(tools)
    /\ phase \in {"initialized", "serving"} =>
          \A pk \in DeclaredOps(schema) :
              \E k \in DOMAIN operations :
                  /\ operations[k].path = schema.paths[pk[1]].key
                  /\ ToLowerCase(operations[k].method) = pk[2]
                  /\ operations[k].parameters =
                        schema.paths[pk[1]].item.parameters
                        \o schema.paths[pk[1]].item.ops[pk[2]].parameters

\* C10 as stated: an operation without identifier is indexed under the
\* lower-cased method, two underscores, and the path with every run of
\* non-alphanumeric characters collapsed to one underscore (the two
\* underscores read either as a separator or as including the one that the
\* leading slash of the path becomes).
C10_CollapsedRuns ==
    phase = "initialized" =>
        \A pk \in UnnamedOps(schema) :
            \/ (pk[2] \o "__" \o ReplaceNonAlnumRuns(schema.paths[pk[1]].key)) \in DOMAIN operations
            \/ (pk[2] \o "_" \o ReplaceNonAlnumRuns(schema.paths[pk[1]].key)) \in DOMAIN operations

\* k is method, one underscore, then the path with each character that is
\* not a letter or a digit replaced by an underscore, position by position
IsPerCharacterId(k, method, path) ==
    /\ Len(k) = Len(method) + 1 + Len(path)
    /\ SubSeq(k, 1, Len(method)) = method
    /\ SubSeq(k, Len(method) + 1, Len(method) + 1) = "_"
    /\ \A i \in 1..Len(path) :
          LET c == SubSeq(path, i, i)
              d == SubSeq(k, Len(method) + 1 + i, Len(method) + 1 + i)
          IN IF c \in CharsOf(LowerLetters \o UpperLetters \o Digits) THEN d = c ELSE d = "_"

\* C10 (amended): an operation without identifier is indexed under the
\* lower-cased method, one underscore, and the path with every single
\* non-alphanumeric character replaced by an underscore (runs are kept:
\* get + /api/v1/complex-path/{id} gives get__api_v1_complex_path__id_).
C10_PerCharacterId ==
    phase = "initialized" =>
        /\ \A pk \in UnnamedOps(schema) :
              \E k \in DOMAIN operations :
                  /\ IsPerCharacterId(k, pk[2], schema.paths[pk[1]].key)
                  /\ pk[2] = ToLowerCase(pk[2])
        /\ \A pk \in UnnamedOps(schema) :
              (pk[2] = "get" /\ schema.paths[pk[1]].key = "/api/v1/complex-path/{id}")
                  => "get__api_v1_complex_path__id_" \in DOMAIN operations

C10_Witness ==
    /\ phase = "initialized"
    /\ \E pk \in UnnamedOps(schema) :
          /\ schema.paths[pk[1]].key = "/api/v1/complex-path/{id}"
          /\ pk[2] = "get"
    /\ "get__api_v1_complex_path__id_" \in DOMAIN operations
(***************************************************************************)
(* Documents of the execution specification: one operation, with lists of  *)
(* up to MaxParams different parameters, or with a request body            *)
(* of up to MaxMedia media types and content-type header parameters.       *)
(***************************************************************************)
ParamPool ==
    { Param("id", "path", TRUE, "string"),
      Param("n", "query", TRUE, "integer"),
      Param("flag", "query", FALSE, "boolean"),
      Param("tags", "query", FALSE, "array"),
      Param("q", "query", FALSE, "string"),
      Param("X-Req", "header", TRUE, "none"),
      Param("id", "header", TRUE, "integer") }

ContentTypeParams ==
    { <<>>,
      <<Param("Content-Type", "header", FALSE, "string")>>,
      <<Param("content-type", "header", FALSE, "none")>>,
      <<Param("CONTENT-TYPE", "header", FALSE, "string")>> }

MediaTypes ==
    { "application/json", "application/xml", "text/xml",
      "application/x-www-form-urlencoded", "multipart/form-data", "text/plain" }

SeqsUpTo(S, n) == UNION {[1..k -> S] : k \in 0..n}

Distinct(q) == \A i, j \in 1..Len(q) : i # j => q[i] # q[j]

MediaLists == {q \in SeqsUpTo(MediaTypes, MaxMedia) : Distinct(q)}

SingleOperation(servers, pathKey, key, op) ==
    Document(servers, <<[key |-> pathKey, item |-> PathItem(<<>>, [k \in {key} |-> op])]>>)

ParameterDocuments ==
    { SingleOperation(<<"http://s1">>, "/u/{id}", "get",
                      Operation("getU", ps, b)) :
        ps \in {q \in SeqsUpTo(ParamPool, MaxParams) : Distinct(q)},
        b \in {NoBody, Body(<<"application/json">>, TRUE)} }

BodyDocuments ==
    { SingleOperation(<<"http://s1", "http://s2">>, "/x", "post",
                      Operation("", ps, Body(q, FALSE))) :
        ps \in ContentTypeParams, q \in MediaLists }

ExecSetups ==
    ((ParameterDocuments \cup BodyDocuments) \X {[baseUrl |-> ""]})
    \cup ({SingleOperation(servers, "/x", "post", Operation("", <<>>, NoBody)) :
               servers \in {<<>>, <<"http://s1", "http://s2">>}}
          \X {[baseUrl |-> ""], [baseUrl |-> "http://o"]})

\* values a caller may pass under an argument name
ArgValues(name) ==
    CASE name = "id" -> {Undefined, Null, Str("a b"), Str("7")}
      [] name = "n" -> {Undefined, Str("12"), Str("abc"), Str("")}
      [] name = "flag" -> {Undefined, Str("TRUE"), Str("yes"), Bool(FALSE)}
      [] name = "q" -> {Undefined, Num(7), Str("x y")}
      [] name = "tags" -> {Undefined, Str("a,b,c"), Str(" a , b "), Str("[\"x\",2]"),
                           Arr(<<Str("x"), Str("y")>>), Str("1"), Str("{}")}
      [] name = "X-Req" -> {Undefined, Str("r")}
      [] name = "body" -> {Undefined, Str("{\"a\":1}"), Str("{a"),
                           Obj(<<"b", "a">>, <<Str("x y"), Num(1)>>)}
      [] OTHER -> {Undefined, Str("text/plain"), Str("application/json"), Str("")}

ArgNames(info) ==
    {info.parameters[i].name : i \in 1..Len(info.parameters)} \cup {"body"}

\* values passed under name to the operation info: a body of any kind where
\* one is declared, an object or nothing where none is
ArgValuesFor(info, name) ==
    IF name = "body" /\ ~info.requestBody.declared
    THEN {Undefined, Obj(<<"b", "a">>, <<Str("x y"), Num(1)>>)}
    ELSE ArgValues(name)

\* argument maps for the registered operation id
ArgMaps(id) ==
    { [n \in DOMAIN f |-> f[n]] :
        f \in UNION { {g \in [ArgNames(operations[id]) -> UNION {ArgValues(n) : n \in ArgNames(operations[id])}] :
                          \A n \in DOMAIN g : g[n] \in ArgValuesFor(operations[id], n)} } }

UnknownId == "nope"

\* identifiers a caller may name, and the argument maps sent with each
CallNames == DOMAIN operations \cup {UnknownId}

CallArgs(name) ==
    IF name \in DOMAIN operations THEN ArgMaps(name)
    ELSE UNION {ArgMaps(id) : id \in DOMAIN operations}

Responses ==
    { [kind |-> "response", status |-> 200, statusText |-> "OK",
       headers |-> EmptyMap, data |-> Obj(<<"ok">>, <<Bool(TRUE)>>)],
      [kind |-> "response", status |-> 404, statusText |-> "Not Found",
       headers |-> EmptyMap, data |-> Obj(<<"error">>, <<Str("nf")>>)],
      [kind |-> "response", status |-> 500, statusText |-> "",
       headers |-> EmptyMap, data |-> Str("")],
      [kind |-> "network", message |-> "Network Error"],
      [kind |-> "other", error |-> [name |-> "TypeError", message |-> "Invalid URL"]] }

(***************************************************************************)
(* Invocations.                                                            *)
(***************************************************************************)
\* the request configuration kept in a field that the invocations in flight
\* share: an invocation sends what an earlier one assembled
StartedSharedConfig(via, name, args, prep) ==
    IF prep.threw
    THEN [NoCall EXCEPT !.pc = "done", !.via = via, !.name = name, !.args = args,
                        !.outcome = prep]
    ELSE [NoCall EXCEPT !.pc = "awaiting", !.via = via, !.name = name, !.args = args,
                        !.sent = 1,
                        !.config = IF \E j \in DOMAIN inv : inv[j].pc = "awaiting"
                                   THEN inv[CHOOSE j \in DOMAIN inv : inv[j].pc = "awaiting"].config
                                   ELSE prep.value]

Started(via, name, args, prep) ==
    IF prep.threw
    THEN [NoCall EXCEPT !.pc = "done", !.via = via, !.name = name, !.args = args,
                        !.outcome = prep]
    ELSE [NoCall EXCEPT !.pc = "awaiting", !.via = via, !.name = name, !.args = args,
                        !.sent = 1, !.config = prep.value]

\* lines 326-365 without the catch: a failure of executeOperation leaves the
\* handler as an exception
HandlerReplyRethrow(name, outcome) ==
    IF outcome.threw
    THEN Throw(outcome.error)
    ELSE Return([isError |-> FALSE, result |-> outcome.value])

\* the reply of the CallTool handler to a settled executeOperation (lines 326-365)
HandlerReply(name, outcome) ==
    IF outcome.threw
    THEN Return([isError |-> TRUE,
                 text |-> "Error executing " \o name \o ": " \o outcome.error.message])
    ELSE Return([isError |-> FALSE, result |-> outcome.value])

\* an invocation of the handler that has settled carries the handler's reply
Replied(call) ==
    IF call.pc = "done" /\ call.via = "server"
    THEN [call EXCEPT !.reply = HandlerReply(call.name, call.outcome)]
    ELSE call

\* lines 149-173 with a retry of the request that failed
SettledWithRetry(call, resp) ==
    [call EXCEPT !.pc = "done",
                 !.response = resp,
                 !.sent = IF Complete(call.config, resp).threw THEN @ + 1 ELSE @,
                 !.outcome = Complete(call.config, resp)]

\* lines 149-173: the awaited request settles with resp and the invocation
\* returns or throws; no further request is issued
Settled(call, resp) ==
    [call EXCEPT !.pc = "done", !.response = resp, !.outcome = Complete(call.config, resp)]

\* a caller of the APIClient invokes executeOperation(operationId, args)
ExecuteOperation(i) ==
    /\ phase = "initialized"
    /\ inv[i].pc = "idle"
    /\ \E operationId \in CallNames : \E args \in CallArgs(operationId) :
          inv' = [inv EXCEPT ![i] =
                     Started("client", operationId, args,
                             PrepareRequest(operations, baseUrl, operationId, args))]
    /\ UNCHANGED <<schema, options, phase, started, baseUrl, operations, tools, res>>

\* the CallTool request handler runs up to its await (lines 318-330)
CallTool(i) ==
    /\ Connected
    /\ phase # "failed"
    /\ inv[i].pc = "idle"
    /\ \E name \in CallNames : \E args \in CallArgs(name) :
          IF \E t \in 1..Len(tools) : tools[t].name = name
          THEN inv' = [inv EXCEPT ![i] =
                          Replied(Started("server", name, args,
                                          PrepareRequest(operations, baseUrl, name, args)))]
          ELSE inv' = [inv EXCEPT ![i] =
                          [NoCall EXCEPT !.pc = "done", !.via = "server", !.name = name,
                                         !.args = args,
                                         !.reply = Throw(NewError("Tool " \o name \o " not found"))]]
    /\ UNCHANGED <<schema, options, phase, started, baseUrl, operations, tools, res>>

\* the ListTools request handler (lines 311-315)
ListTools(i) ==
    /\ Connected
    /\ phase # "failed"
    /\ inv[i].pc = "idle"
    /\ inv' = [inv EXCEPT ![i] =
                   [NoCall EXCEPT !.pc = "done", !.via = "list", !.reply = Return(tools)]]
    /\ UNCHANGED <<schema, options, phase, started, baseUrl, operations, tools, res>>

\* client.request settles and the suspended invocation runs to its end
Respond(i) ==
    /\ inv[i].pc = "awaiting"
    /\ \E resp \in Responses : inv' = [inv EXCEPT ![i] = Replied(Settled(inv[i], resp))]
    /\ UNCHANGED <<schema, options, phase, started, baseUrl, operations, tools, res>>

\* the caller takes the settled result; the slot serves the next invocation
Settle(i) ==
    /\ inv[i].pc = "done"
    /\ inv' = [inv EXCEPT ![i] = NoCall]
    /\ UNCHANGED <<schema, options, phase, started, baseUrl, operations, tools, res>>

Init ==
    /\ \E setup \in ExecSetups : schema = setup[1] /\ options = setup[2]
    /\ phase = "new"
    /\ started = 0
    /\ baseUrl = ""
    /\ operations = EmptyMap
    /\ tools = <<>>
    /\ inv = [i \in {1} |-> NoCall]
    /\ res = NoResolution

Next ==
    \/ Initialize
    \/ Start
    \/ \E i \in DOMAIN inv : ExecuteOperation(i)
    \/ \E i \in DOMAIN inv : CallTool(i)
    \/ \E i \in DOMAIN inv : ListTools(i)
    \/ \E i \in DOMAIN inv : Respond(i)
    \/ \E i \in DOMAIN inv : Settle(i)

Spec == Init /\ [][Next]_vars

(***************************************************************************)
(* The concurrent specification: MaxCalls invocations may be suspended at  *)
(* their outbound request at once, on one operation with a path parameter  *)
(* and a required header parameter.                                        *)
(***************************************************************************)
ConcurrentSetups ==
    { SingleOperation(<<"http://s1">>, "/u/{id}", "get",
                      Operation("getU", <<Param("id", "path", TRUE, "string"),
                                          Param("X-Req", "header", TRUE, "none")>>, NoBody)) }
    \X {[baseUrl |-> ""]}

InitConcurrent ==
    /\ \E setup \in ConcurrentSetups : schema = setup[1] /\ options = setup[2]
    /\ phase = "new"
    /\ started = 0
    /\ baseUrl = ""
    /\ operations = EmptyMap
    /\ tools = <<>>
    /\ inv = [i \in 1..MaxCalls |-> NoCall]
    /\ res = NoResolution

SpecConcurrent == InitConcurrent /\ [][Next]_vars

(***************************************************************************)
(* Execution claims (checked under Spec).  The outbound request of an      *)
(* invocation is the configuration it hands to client.request.             *)
(***************************************************************************)
\* executeOperation ran in the invocation c
Ran(c) == c.pc = "awaiting" \/ (c.pc = "done" /\ c.outcome # Undefined)

Registered(c) == c.name \in DOMAIN operations

ParamsOf(c) == operations[c.name].parameters

Supplied(c, k) == ArgOf(c.args, ParamsOf(c)[k].name).t \notin {"undefined", "null"}

\* the required parameters that the arguments of c leave absent or null
MissingOf(c) == {k \in 1..Len(ParamsOf(c)) : ParamsOf(c)[k].required /\ ~Supplied(c, k)}

\* the parameters whose supplied value fails coercion to the declared type
UncoercibleOf(c) ==
    {k \in 1..Len(ParamsOf(c)) :
        /\ Supplied(c, k)
        /\ processParameterValue(ParamsOf(c)[k], ArgOf(c.args, ParamsOf(c)[k].name)).threw}

BodySupplied(c) ==
    operations[c.name].requestBody.declared /\ ArgOf(c.args, "body") # Undefined

\* C1: an invocation on a registered operation whose arguments leave a
\* required parameter absent or null issues no outbound request at any point:
\* it ends at once with an error, no request configuration built.
C1_NoRequestWhileMissing ==
    \A i \in DOMAIN inv :
        (Ran(inv[i]) /\ Registered(inv[i]) /\ MissingOf(inv[i]) # {}) =>
            /\ inv[i].pc = "done"
            /\ inv[i].sent = 0
            /\ inv[i].config = Undefined
            /\ inv[i].response = Undefined
            /\ inv[i].outcome.threw

C1_Witness ==
    \E i \in DOMAIN inv :
        /\ Ran(inv[i]) /\ Registered(inv[i])
        /\ \E k \in MissingOf(inv[i]) : ArgOf(inv[i].args, ParamsOf(inv[i])[k].name) = Null
        /\ \E k \in 1..Len(ParamsOf(inv[i])) : Supplied(inv[i], k)
        /\ inv[i].pc = "done" /\ inv[i].sent = 0

NamesWithLocation(message, param) ==
    Contains(message, param.name \o " (" \o param.in \o ")")

RECURSIVE EntryLengths(_, _)
EntryLengths(c, K) ==
    IF K = {} THEN 0
    ELSE LET k == CHOOSE x \in K : TRUE
         IN Len(ParamsOf(c)[k].name) + Len(ParamsOf(c)[k].in) + 3
            + (IF K = {k} THEN 0 ELSE 2 + EntryLengths(c, K \ {k}))

\* C2: with k >= 1 required parameters absent or null and every supplied
\* value coercible, the invocation fails with one error whose message names
\* each of the k missing parameters with its location, each once and nothing
\* else; two missing parameters give one error naming both.
C2_OneErrorNamesAllMissing ==
    \A i \in DOMAIN inv :
        (Ran(inv[i]) /\ Registered(inv[i]) /\ MissingOf(inv[i]) # {} /\ UncoercibleOf(inv[i]) = {}) =>
            /\ inv[i].pc = "done"
            /\ inv[i].outcome.threw
            /\ StartsWith(inv[i].outcome.error.message, "Missing required parameters: ")
            /\ \A k \in MissingOf(inv[i]) :
                  NamesWithLocation(inv[i].outcome.error.message, ParamsOf(inv[i])[k])
            /\ Len(inv[i].outcome.error.message) =
                  Len("Missing required parameters: ") + EntryLengths(inv[i], MissingOf(inv[i]))

C2_Witness ==
    \E i \in DOMAIN inv :
        /\ Ran(inv[i]) /\ Registered(inv[i]) /\ UncoercibleOf(inv[i]) = {}
        /\ \E j, k \in MissingOf(inv[i]) :
              /\ ParamsOf(inv[i])[j].in = "path" /\ ParamsOf(inv[i])[k].in = "header"
              /\ NamesWithLocation(inv[i].outcome.error.message, ParamsOf(inv[i])[j])
              /\ NamesWithLocation(inv[i].outcome.error.message, ParamsOf(inv[i])[k])

\* C3: when an invocation has offending parameters (missing required ones,
\* supplied values that fail coercion, or both), it fails before any request
\* is sent with one error whose message names every one of them.
C3_AggregatedValidationError ==
    \A i \in DOMAIN inv :
        (Ran(inv[i]) /\ Registered(inv[i])
         /\ (MissingOf(inv[i]) \cup UncoercibleOf(inv[i])) # {}) =>
            /\ inv[i].outcome.threw
            /\ inv[i].sent = 0
            /\ \A k \in MissingOf(inv[i]) \cup UncoercibleOf(inv[i]) :
                  Contains(inv[i].outcome.error.message, " " \o ParamsOf(inv[i])[k].name \o " ")

\* the headers the parameter loop leaves for the arguments of c
HeadersOf(c) ==
    ParamLoop(ParamsOf(c), c.args, 1, LoopStart(baseUrl \o operations[c.name].path)).headers

\* the supplied body cannot be encoded for the content type chosen for c
BodyRejected(c) ==
    /\ BodySupplied(c)
    /\ processRequestBody(ArgOf(c.args, "body"),
                          determineContentType(operations[c.name].requestBody, HeadersOf(c))).threw

\* c passes lookup, parameter validation and coercion, and body encoding
Passes(c) ==
    /\ Registered(c)
    /\ MissingOf(c) = {}
    /\ UncoercibleOf(c) = {}
    /\ ~BodyRejected(c)

\* C4: an invocation that passes lookup, validation, coercion and body
\* encoding has issued exactly one request, also after a non-2xx response or
\* a transport failure; every other invocation has issued none.
C4_ExactlyOneRequest ==
    \A i \in DOMAIN inv :
        /\ inv[i].sent = (IF Ran(inv[i]) /\ Passes(inv[i]) THEN 1 ELSE 0)
        /\ inv[i].response # Undefined => inv[i].sent = 1
        /\ (inv[i].sent = 1) = (inv[i].config # Undefined)

C4_Witness ==
    \E i \in DOMAIN inv :
        /\ inv[i].pc = "done"
        /\ Passes(inv[i])
        /\ inv[i].response # Undefined
        /\ inv[i].response.kind \in {"response", "network"}
        /\ inv[i].outcome.threw
        /\ inv[i].sent = 1

\* C5: an invocation naming an identifier that is not a key of the registry
\* ends at once with the not-found error whatever its arguments are, issues
\* no request, and leaves the registry as indexing built it.
C5_UnknownIdentifier ==
    \A i \in DOMAIN inv :
        (inv[i].pc # "idle" /\ ~Registered(inv[i])) =>
            /\ inv[i].pc = "done"
            /\ inv[i].sent = 0
            /\ inv[i].config = Undefined
            /\ inv[i].via = "client" =>
                  inv[i].outcome = Throw(NewError("Operation " \o inv[i].name \o " not found"))
            /\ inv[i].via = "server" =>
                  \/ inv[i].reply = Throw(NewError("Tool " \o inv[i].name \o " not found"))
                  \/ inv[i].outcome = Throw(NewError("Operation " \o inv[i].name \o " not found"))
            /\ operations = parseOperations(schema, EmptyMap)

C5_Witness ==
    \E i \in DOMAIN inv :
        /\ inv[i].via = "client"
        /\ ~Registered(inv[i])
        /\ \E n \in DOMAIN inv[i].args : inv[i].args[n] = Str("abc")
        /\ inv[i].outcome = Throw(NewError("Operation nope not found"))
        /\ inv[i].sent = 0
        /\ DOMAIN operations # {}

ContentTypePreference ==
    <<"application/json", "application/xml", "text/xml",
      "application/x-www-form-urlencoded", "multipart/form-data">>

Declares(content, mediaType) == \E j \in 1..Len(content) : content[j] = mediaType

ExpectedContentType(content) ==
    IF \E p \in 1..Len(ContentTypePreference) : Declares(content, ContentTypePreference[p])
    THEN ContentTypePreference[
             CHOOSE p \in 1..Len(ContentTypePreference) :
                 /\ Declares(content, ContentTypePreference[p])
                 /\ \A q \in 1..(p - 1) : ~Declares(content, ContentTypePreference[q])]
    ELSE content[1]

\* the header parameters of c that name the content type and carry a value
CallerContentTypes(c) ==
    {k \in 1..Len(ParamsOf(c)) :
        /\ ParamsOf(c)[k].in = "header"
        /\ ToLowerCase(ParamsOf(c)[k].name) = "content-type"
        /\ Supplied(c, k)}

\* C6: a request sent with a body for an operation that declares media
\* types, the caller giving no content-type header, carries as Content-Type
\* the first of application/json, application/xml, text/xml,
\* application/x-www-form-urlencoded, multipart/form-data that the operation
\* declares, else the first declared media type; multipart/form-data declared
\* before application/json still selects application/json.
C6_NegotiatedContentType ==
    \A i \in DOMAIN inv :
        (inv[i].config # Undefined /\ Registered(inv[i]) /\ BodySupplied(inv[i])
         /\ CallerContentTypes(inv[i]) = {}
         /\ Len(operations[inv[i].name].requestBody.content) > 0) =>
            /\ "Content-Type" \in DOMAIN inv[i].config.headers
            /\ inv[i].config.headers["Content-Type"] =
                  ExpectedContentType(operations[inv[i].name].requestBody.content)

C6_Witness ==
    \E i \in DOMAIN inv :
        /\ inv[i].config # Undefined /\ Registered(inv[i]) /\ BodySupplied(inv[i])
        /\ CallerContentTypes(inv[i]) = {}
        /\ operations[inv[i].name].requestBody.content = <<"multipart/form-data", "application/json">>
        /\ inv[i].config.headers["Content-Type"] = "application/json"

\* C7: a request sent with a body and with a (non-empty) content-type value
\* supplied by the caller through a header parameter carries exactly that
\* value under every content-type header it has, whatever media types are
\* declared.
C7_CallerContentTypeWins ==
    \A i \in DOMAIN inv :
        (inv[i].config # Undefined /\ Registered(inv[i]) /\ BodySupplied(inv[i])) =>
            \A k \in CallerContentTypes(inv[i]) :
                Truthy(ArgOf(inv[i].args, ParamsOf(inv[i])[k].name)) =>
                    \A h \in DOMAIN inv[i].config.headers :
                        ToLowerCase(h) = "content-type" =>
                            inv[i].config.headers[h] = ToStr(ArgOf(inv[i].args, ParamsOf(inv[i])[k].name))

\* C8: the error thrown after a non-2xx response or a transport failure
\* carries the attempted method and URL and, when there was a response, its
\* status, status text and body.
C8_HttpErrorCarriesRequest ==
    \A i \in DOMAIN inv :
        (inv[i].pc = "done" /\ inv[i].response # Undefined
         /\ \/ inv[i].response.kind = "network"
            \/ inv[i].response.kind = "response" /\ ~IsSuccess(inv[i].response.status)) =>
            /\ inv[i].outcome.threw
            /\ Contains(inv[i].outcome.error.message, inv[i].config.method)
            /\ Contains(inv[i].outcome.error.message, inv[i].config.url)
            /\ inv[i].response.kind = "response" =>
                  /\ Contains(inv[i].outcome.error.message, ToString(inv[i].response.status))
                  /\ Contains(inv[i].outcome.error.message, inv[i].response.statusText)
                  /\ Contains(inv[i].outcome.error.message, JSONStringify(inv[i].response.data))

\* C11: after initialization the base URL is the configured override when
\* there is one, otherwise the first server URL of the document, and requests
\* go to it; with neither, initialization fails with the configuration error,
\* no tool is listed and no invocation is ever accepted.
C11_BaseUrlResolution ==
    /\ phase \in {"initialized", "serving"} =>
          /\ options.baseUrl # "" \/ Len(schema.servers) > 0
          /\ baseUrl = (IF options.baseUrl # "" THEN options.baseUrl ELSE schema.servers[1])
          /\ \A i \in DOMAIN inv :
                inv[i].config # Undefined =>
                    StartsWith(inv[i].config.url,
                               IF options.baseUrl # "" THEN options.baseUrl ELSE schema.servers[1])
    /\ (options.baseUrl = "" /\ Len(schema.servers) = 0) =>
          /\ phase \in {"new", "starting", "failed"}
          /\ ~Connected
          /\ tools = <<>>
          /\ \A i \in DOMAIN inv : inv[i] = NoCall
    /\ phase = "failed" =>
          /\ options.baseUrl = "" /\ Len(schema.servers) = 0
          /\ ResolveBaseUrl(options, schema).threw
          /\ ResolveBaseUrl(options, schema).error.message =
                "No server URL found in OpenAPI schema and no base URL provided"
          /\ tools = <<>>
          /\ operations = EmptyMap
          /\ \A i \in DOMAIN inv : inv[i] = NoCall

C11_Witness ==
    /\ phase = "serving"
    /\ options.baseUrl = "http://o"
    /\ Len(schema.servers) = 2
    /\ baseUrl = "http://o"
    /\ \E i \in DOMAIN inv : inv[i].config # Undefined /\ inv[i].config.url = "http://o/x"

\* C12: an invocation is served only once start() has built the registry
\* and the tool list (both complete for the loaded document), and from the
\* moment requests can arrive neither the registry nor the tool list changes,
\* whatever invocations follow.
C12_StartupOrdering ==
    /\ [](\A i \in DOMAIN inv :
             inv[i].via \in {"server", "list"} =>
                 /\ phase = "serving"
                 /\ operations = parseOperations(schema, EmptyMap)
                 /\ tools = generateTools(schema)
                 /\ inv[i].via = "list" => inv[i].reply = Return(generateTools(schema)))
    /\ [][Connected => (operations' = operations /\ tools' = tools /\ schema' = schema)]_vars

C12_Witness ==
    /\ Connected
    /\ Len(tools) > 0
    /\ \E i \in DOMAIN inv :
          /\ inv[i].via = "server"
          /\ inv[i].pc = "done"
          /\ inv[i].response # Undefined
          /\ inv[i].reply.value.isError

\* the registry entry that the tool named name was generated for
EntryOf(name) == operations[name]

DistinctNames(parameters) ==
    \A j, k \in 1..Len(parameters) :
        j # k => parameters[j].name # parameters[k].name

\* position of the first occurrence of name in the list r (0: none)
PositionIn(r, name) ==
    IF \E j \in 1..Len(r) : r[j] = name
    THEN CHOOSE j \in 1..Len(r) : r[j] = name /\ \A k \in 1..(j - 1) : r[k] # name
    ELSE 0

\* r lists the required parameters of the entry by name, in declaration
\* order, then "body" iff the request body is required, and nothing else
IsRequiredList(r, entry) ==
    /\ \A j \in 1..Len(r) :
          \/ \E k \in 1..Len(entry.parameters) :
                entry.parameters[k].required /\ entry.parameters[k].name = r[j]
          \/ r[j] = "body" /\ entry.requestBody.declared /\ entry.requestBody.required
    /\ \A k \in 1..Len(entry.parameters) :
          entry.parameters[k].required => PositionIn(r, entry.parameters[k].name) > 0
    /\ \A j, k \in 1..Len(entry.parameters) :
          (j < k /\ entry.parameters[j].required /\ entry.parameters[k].required) =>
              PositionIn(r, entry.parameters[j].name) < PositionIn(r, entry.parameters[k].name)
    /\ (entry.requestBody.declared /\ entry.requestBody.required)
          <=> (Len(r) > 0 /\ r[Len(r)] = "body")
    /\ \A j, k \in 1..Len(r) : j # k => r[j] # r[k]

SchemaNames == {"Entity", "Metadata"}

PropertyNames == <<"id", "parent", "children", "metadata">>

StringSchema == [kind |-> "string"]

RefTo(n) == [kind |-> "ref", target |-> n]

ArrayOf(items) == [kind |-> "array", items |-> items]

ObjectOf(names, schemas) ==
    [kind |-> "object",
     props |-> [k \in 1..Len(schemas) |-> [name |-> names[k], schema |-> schemas[k]]]]

PropertySchemas ==
    {StringSchema, ArrayOf(RefTo("Entity"))} \cup {RefTo(n) : n \in SchemaNames}

ObjectSchemas ==
    {ObjectOf(PropertyNames, q) : q \in UNION {[1..k -> PropertySchemas] : k \in 0..MaxProps}}

\* components.schemas of the circular-reference test
CircularDefinitions ==
    [n \in SchemaNames |->
        IF n = "Entity"
        THEN ObjectOf(<<"id", "parent", "children", "metadata">>,
                      <<StringSchema, RefTo("Entity"), ArrayOf(RefTo("Entity")), RefTo("Metadata")>>)
        ELSE ObjectOf(<<"tags", "entity">>, <<ArrayOf(StringSchema), RefTo("Entity")>>)]

DefinitionTables == [SchemaNames -> ObjectSchemas] \cup {CircularDefinitions}

PropNamesOf(node) == [k \in 1..Len(node.props) |-> node.props[k].name]

Task(at, node, stack, of) == [at |-> at, schema |-> node, stack |-> stack, of |-> of]

\* the tasks of the properties of an object schema found at path at
PropertyTasks(at, node, stack) ==
    [k \in 1..Len(node.props) |->
        Task(Append(at, node.props[k].name), node.props[k].schema, stack, "")]

\* the cycle test of a resolver that never finds a pointer on the stack
OnStackNever(stack, n) == FALSE

\* the pointer already appears on pathStack
OnStack(stack, n) == \E k \in 1..Len(stack) : stack[k] = n

\* the terminal stub of a pointer that is being expanded: declared type and
\* property names of the target, nothing below
Stub(t, target) ==
    [path |-> t.at, kind |-> "stub", type |-> target.kind, props |-> PropNamesOf(target),
     of |-> t.schema.target, stack |-> t.stack]

Emitted(t, props) ==
    [path |-> t.at, kind |-> t.schema.kind, type |-> t.schema.kind, props |-> props,
     of |-> t.of, stack |-> t.stack]

\* resolve visits the node on top of the work stack
ResolveStep(r, t) ==
    CASE t.schema.kind = "ref" ->
            IF OnStack(t.stack, t.schema.target)
            THEN [r EXCEPT !.work = Tail(@),
                           !.out = @ \cup {Stub(t, r.defs[t.schema.target])}]
            ELSE [r EXCEPT !.work =
                      <<Task(t.at, r.defs[t.schema.target],
                             Append(t.stack, t.schema.target), t.schema.target)>>
                      \o Tail(@)]
      [] t.schema.kind = "object" ->
            [r EXCEPT !.work = PropertyTasks(t.at, t.schema, t.stack) \o Tail(@),
                      !.out = @ \cup {Emitted(t, PropNamesOf(t.schema))}]
      [] t.schema.kind = "array" ->
            [r EXCEPT !.work = <<Task(Append(t.at, "[]"), t.schema.items, t.stack, "")>> \o Tail(@),
                      !.out = @ \cup {Emitted(t, <<>>)}]
      [] OTHER ->
            [r EXCEPT !.work = Tail(@), !.out = @ \cup {Emitted(t, <<>>)}]

\* the longest chain of pointers the model follows
StackCap == Cardinality(SchemaNames)

Resolve ==
    /\ phase = "resolving"
    /\ Len(res.work) > 0
    /\ Len(Head(res.work).stack) <= StackCap
    /\ res' = ResolveStep(res, Head(res.work))
    /\ UNCHANGED <<schema, options, phase, started, baseUrl, operations, tools, inv>>

\* resolve(schema, []) is called on a pointer to Entity
InitResolve ==
    /\ schema = Document(<<>>, <<>>)
    /\ options = [baseUrl |-> ""]
    /\ phase = "resolving"
    /\ started = 0
    /\ baseUrl = ""
    /\ operations = EmptyMap
    /\ tools = <<>>
    /\ inv = [i \in {1} |-> NoCall]
    /\ \E defs \in DefinitionTables :
          res = [defs |-> defs, work |-> <<Task(<<>>, RefTo("Entity"), <<>>, "")>>, out |-> {}]

NextResolve == Resolve

SpecResolve == InitResolve /\ [][NextResolve]_vars /\ WF_vars(NextResolve)

IsPrefix(a, b) == Len(a) < Len(b) /\ SubSeq(b, 1, Len(a)) = a

NoRepeat(stack) == \A j, k \in 1..Len(stack) : j # k => stack[j] # stack[k]

\* C14: resolve terminates on every table of definitions, self-referential
\* and mutually referential ones included; a pointer that is already being
\* expanded becomes a stub that has the type and the property names of its
\* target and nothing below it; no pointer is expanded twice on one branch;
\* the tree has one node per path and keeps the property names of the
\* referenced type at its root.
C14_ResolveTerminates ==
    /\ <>(res.work = <<>>)
    /\ [](\A n \in res.out :
             /\ NoRepeat(n.stack)
             /\ n.kind = "stub" =>
                   /\ OnStack(n.stack, n.of)
                   /\ n.type = "object"
                   /\ n.props = PropNamesOf(res.defs[n.of])
                   /\ \A m \in res.out : ~IsPrefix(n.path, m.path)
             /\ \A m \in res.out : m.path = n.path => m = n
             /\ n.path = <<>> =>
                   n.kind = "object" /\ n.props = PropNamesOf(res.defs["Entity"]))
    /\ [](res.work = <<>> => \E n \in res.out : n.path = <<>>)

C14_Witness ==
    /\ res.defs = CircularDefinitions
    /\ res.work = <<>>
    /\ \E n \in res.out :
          n.path = <<"parent">> /\ n.kind = "stub" /\ n.of = "Entity"
          /\ n.props = <<"id", "parent", "children", "metadata">>
    /\ \E n \in res.out :
          n.path = <<"metadata", "entity">> /\ n.kind = "stub" /\ n.of = "Entity"
    /\ \E n \in res.out :
          n.path = <<"metadata">> /\ n.kind = "object" /\ n.props = <<"tags", "entity">>

RECURSIVE CountOf(_, _)
CountOf(s, c) ==
    IF s = "" THEN 0 ELSE (IF Head(s) = c THEN 1 ELSE 0) + CountOf(Tail(s), c)

IsTrimmed(s) ==
    s = "" \/ (~IsSpace(SubSeq(s, 1, 1)) /\ ~IsSpace(SubSeq(s, Len(s), Len(s))))

\* r is the list of the comma-separated tokens of s, each trimmed
IsCommaSplit(r, s) ==
    /\ r.t = "array"
    /\ Len(r.v) = CountOf(s, ",") + 1
    /\ \A j \in 1..Len(r.v) :
          /\ r.v[j].t = "string"
          /\ ~Contains(r.v[j].v, ",")
          /\ IsTrimmed(r.v[j].v)
          /\ Contains(s, r.v[j].v)

\* the supplied query parameters of c that are declared of type array
ArrayQueryParams(c) ==
    {k \in 1..Len(ParamsOf(c)) :
        ParamsOf(c)[k].type = "array" /\ ParamsOf(c)[k].in = "query" /\ Supplied(c, k)}

\* C15: the value sent for a parameter of type array is the supplied array
\* itself; for a supplied string it is the result of JSON.parse when that
\* succeeds, else the comma-separated tokens of the string, each trimmed:
\* "a,b,c" gives ["a","b","c"].
C15_ArrayCoercion ==
    \A i \in DOMAIN inv :
        (inv[i].config # Undefined /\ Registered(inv[i])) =>
            \A k \in ArrayQueryParams(inv[i]) :
                LET v == ArgOf(inv[i].args, ParamsOf(inv[i])[k].name)
                    r == inv[i].config.params[ParamsOf(inv[i])[k].name]
                IN /\ v.t = "array" => r = v
                   /\ (v.t = "string" /\ ~JSONParse(v.v).threw) => r = JSONParse(v.v).value
                   /\ (v.t = "string" /\ JSONParse(v.v).threw) => IsCommaSplit(r, v.v)
                   /\ v = Str("a,b,c") => r = Arr(<<Str("a"), Str("b"), Str("c")>>)
                   /\ v = Str(" a , b ") => r = Arr(<<Str("a"), Str("b")>>)
                   /\ v = Str("[\"x\",2]") => r = Arr(<<Str("x"), Num(2)>>)

C15_Witness ==
    \E i \in DOMAIN inv :
        /\ inv[i].config # Undefined /\ Registered(inv[i])
        /\ \E k \in ArrayQueryParams(inv[i]) :
              /\ ArgOf(inv[i].args, ParamsOf(inv[i])[k].name) = Str("a,b,c")
              /\ inv[i].config.params[ParamsOf(inv[i])[k].name]
                    = Arr(<<Str("a"), Str("b"), Str("c")>>)

\* what the values of the pools coerce to under a declared scalar type
ExpectedNumber(v) ==
    CASE v = Str("12") -> Return(Num(12))
      [] v = Str("7") -> Return(Num(7))
      [] v = Str("") -> Return(Num(0))
      [] v.t = "number" -> Return(v)
      [] OTHER -> Throw("a valid number")

ExpectedBoolean(v) ==
    CASE v.t = "boolean" -> Return(v)
      [] v = Str("TRUE") -> Return(Bool(TRUE))
      [] OTHER -> Throw("a boolean")

TextOf(v) ==
    CASE v.t = "string" -> v.v
      [] v.t = "number" -> ToString(v.v)
      [] v.t = "boolean" -> (IF v.v THEN "true" ELSE "false")

ExpectedScalar(type, v) ==
    CASE type \in {"integer", "number"} -> ExpectedNumber(v)
      [] type = "boolean" -> ExpectedBoolean(v)
      [] OTHER -> Return(Str(TextOf(v)))

ValueOf(c, k) == ArgOf(c.args, ParamsOf(c)[k].name)

\* the supplied parameters of c with a declared scalar type
ScalarParams(c) ==
    {k \in 1..Len(ParamsOf(c)) :
        Supplied(c, k) /\ ParamsOf(c)[k].type \in {"integer", "number", "boolean", "string"}}

BadScalars(c) ==
    {k \in ScalarParams(c) : ExpectedScalar(ParamsOf(c)[k].type, ValueOf(c, k)).threw}

\* the supplied array parameters whose value is neither a list nor a string
BadArrays(c) ==
    {k \in 1..Len(ParamsOf(c)) :
        Supplied(c, k) /\ ParamsOf(c)[k].type = "array"
        /\ ValueOf(c, k).t \notin {"array", "string"}}

CoercionMessage(c, k) ==
    "Parameter " \o ParamsOf(c)[k].name \o " must be "
    \o ExpectedScalar(ParamsOf(c)[k].type, ValueOf(c, k)).error
    \o ", got: " \o TextOf(ValueOf(c, k))

\* C16: a supplied integer/number parameter is sent as the number it parses
\* to, a boolean one as the boolean itself or as true/false for the strings
\* "true"/"false" in any letter case, a parameter of another scalar type as
\* its string; a value that does not coerce ends the invocation with an error
\* naming the parameter and the value, and no request is sent.
C16_ScalarCoercion ==
    \A i \in DOMAIN inv :
        (Ran(inv[i]) /\ Registered(inv[i])) =>
            /\ BadScalars(inv[i]) # {} =>
                  /\ inv[i].pc = "done"
                  /\ inv[i].outcome.threw
                  /\ inv[i].sent = 0
                  /\ inv[i].config = Undefined
                  /\ \A k \in BadScalars(inv[i]) :
                        (\A j \in BadScalars(inv[i]) \cup BadArrays(inv[i]) : k <= j) =>
                            inv[i].outcome.error.message = CoercionMessage(inv[i], k)
            /\ inv[i].config # Undefined =>
                  \A k \in ScalarParams(inv[i]) :
                      /\ ParamsOf(inv[i])[k].in = "query" =>
                            inv[i].config.params[ParamsOf(inv[i])[k].name]
                               = ExpectedScalar(ParamsOf(inv[i])[k].type, ValueOf(inv[i], k)).value
                      /\ (ParamsOf(inv[i])[k].in = "header"
                          /\ ToLowerCase(ParamsOf(inv[i])[k].name) # "content-type") =>
                            inv[i].config.headers[ParamsOf(inv[i])[k].name]
                               = TextOf(ExpectedScalar(ParamsOf(inv[i])[k].type, ValueOf(inv[i], k)).value)

C16_Witness ==
    \E i \in DOMAIN inv :
        /\ Ran(inv[i]) /\ Registered(inv[i])
        /\ \E k \in BadScalars(inv[i]) :
              /\ ParamsOf(inv[i])[k].type = "boolean"
              /\ ValueOf(inv[i], k) = Str("yes")
              /\ inv[i].outcome.error.message = "Parameter flag must be a boolean, got: yes"
        /\ inv[i].sent = 0

\* the supplied parameters of c with location loc
SuppliedIn(c, loc) ==
    {k \in 1..Len(ParamsOf(c)) : Supplied(c, k) /\ ParamsOf(c)[k].in = loc}

NamesOf(c, K) == {ParamsOf(c)[k].name : k \in K}

\* the URL-encoded text of the path values of the pools
EncodedPathValue(v) ==
    CASE v = Str("a b") -> "a%20b"
      [] v = Str("7") -> "7"
      [] v = Num(3) -> "3"

\* the path of c with the values of its supplied path parameters in place
RECURSIVE ExpectedPath(_, _, _)
ExpectedPath(c, K, path) ==
    IF K = {} THEN path
    ELSE LET k == CHOOSE x \in K : TRUE
             hole == "{" \o ParamsOf(c)[k].name \o "}"
             at == FindFrom(path, hole, 1)
         IN ExpectedPath(c, K \ {k},
                IF at = 0 THEN path
                ELSE SubSeq(path, 1, at - 1) \o EncodedPathValue(ValueOf(c, k))
                     \o SubSeq(path, at + Len(hole), Len(path)))

ChosenContentType(c) ==
    IF "Content-Type" \in DOMAIN c.config.headers THEN c.config.headers["Content-Type"] ELSE ""

\* what the bodies of the pool are sent as under a content type
ExpectedData(contentType, body) ==
    CASE contentType = "application/json" /\ body = Str("{\"a\":1}") -> Obj(<<"a">>, <<Num(1)>>)
      [] contentType = "application/x-www-form-urlencoded"
         /\ body = Obj(<<"b", "a">>, <<Str("x y"), Num(1)>>) ->
            Str("b=x+y&a=1")
      [] OTHER -> body

\* C18: the data of a sent request is the supplied body encoded for the
\* chosen content type: under application/json a string is parsed and any
\* other value kept; under application/x-www-form-urlencoded an object
\* becomes its key=value pairs joined by & in key order; under any other
\* content type, or none, the body is sent as it is.  There is data only
\* when the operation declares a request body and args.body is supplied.
C18_BodyEncoding ==
    \A i \in DOMAIN inv :
        (inv[i].config # Undefined /\ Registered(inv[i])) =>
            /\ BodySupplied(inv[i]) =>
                  inv[i].config.data =
                      ExpectedData(ChosenContentType(inv[i]), ArgOf(inv[i].args, "body"))
            /\ ~BodySupplied(inv[i]) => inv[i].config.data = Undefined
            /\ inv[i].config.data # Undefined =>
                  /\ operations[inv[i].name].requestBody.declared
                  /\ ArgOf(inv[i].args, "body") # Undefined

C18_Witness ==
    \E i \in DOMAIN inv :
        /\ inv[i].config # Undefined /\ Registered(inv[i])
        /\ ChosenContentType(inv[i]) = "application/x-www-form-urlencoded"
        /\ ArgOf(inv[i].args, "body") = Obj(<<"b", "a">>, <<Str("x y"), Num(1)>>)
        /\ inv[i].config.data = Str("b=x+y&a=1")

(***************************************************************************)
(* Failures at the call boundary (checked under Spec).                     *)
(***************************************************************************)
\* executeOperation failed in the invocation c of the CallTool handler
FailedInExecute(c) ==
    c.via = "server" /\ c.pc = "done" /\ c.outcome # Undefined /\ c.outcome.threw

\* the error result of the handler for the invocation c
ErrorResult(c) ==
    Return([isError |-> TRUE,
            text |-> "Error executing " \o c.name \o ": " \o c.outcome.error.message])

\* C19: every failure of executeOperation in a tool call (missing parameter,
\* coercion failure, unparsable JSON body, non-2xx response, transport
\* failure) is answered with an error result for that call, the handler
\* does not throw, and the server
\* stays connected and serving; a connected server with an idle slot accepts
\* list-tools and call-tool requests; and no step of a connected server
\* changes the tool list, the registry, the base URL, the options or the
\* serving phase.
C19_FailuresReported ==
    /\ [](\A i \in DOMAIN inv :
            FailedInExecute(inv[i]) =>
                /\ inv[i].reply = ErrorResult(inv[i])
                /\ Connected /\ phase = "serving")
    /\ [](Connected =>
            /\ phase = "serving"
            /\ \A i \in DOMAIN inv :
                  inv[i].pc = "idle" => (ENABLED ListTools(i)) /\ (ENABLED CallTool(i)))
    /\ [][Connected =>
            /\ UNCHANGED <<tools, operations, baseUrl, options, schema, phase, started>>
            /\ \A i \in DOMAIN inv :
                  FailedInExecute(inv[i]) => inv'[i] \in {inv[i], NoCall}]_vars

C19_Witness ==
    \E i \in DOMAIN inv :
        /\ FailedInExecute(inv[i])
        /\ inv[i].response # Undefined /\ inv[i].response.kind = "network"
        /\ inv[i].reply.value.isError
        /\ phase = "serving" /\ tools # <<>>

(***************************************************************************)
(* Independence of invocations (checked under SpecConcurrent).             *)
(***************************************************************************)
\* what the invocation c assembles when it runs alone
Alone(c) == PrepareRequest(operations, baseUrl, c.name, c.args)

\* the invocation c holds the request and the result that follow from alone
Follows(c, alone) ==
    /\ alone.threw => c.config = Undefined /\ c.pc = "done" /\ c.outcome = alone
    /\ ~alone.threw =>
          /\ c.config = alone.value
          /\ c.pc = "done" => c.outcome = Complete(alone.value, c.response)
    /\ (c.via = "server" /\ c.pc = "done") => c.reply = HandlerReply(c.name, c.outcome)

\* the invocation c is as executeOperation leaves it when it runs alone
AsAlone(c) == Follows(c, Alone(c))

\* C20: with several invocations in flight, under every interleaving each
\* invocation that ran executeOperation holds the request (method, URL,
\* query, headers, data) and the result that its own identifier, arguments
\* and response give when it runs alone; a step changes one invocation only
\* and never the arguments of an invocation in flight; and while an
\* invocation is in flight nothing writes the registry, the base URL, the
\* options or the tool list.
C20_Independent ==
    /\ [](\A i \in DOMAIN inv : Ran(inv[i]) => AsAlone(inv[i]))
    /\ [][/\ \A i, j \in DOMAIN inv : (i # j /\ inv'[i] # inv[i]) => inv'[j] = inv[j]
          /\ \A i \in DOMAIN inv :
                (inv[i].pc # "idle" /\ inv'[i].pc # "idle") =>
                    /\ inv'[i].args = inv[i].args /\ inv'[i].name = inv[i].name
                    /\ inv'[i].config = inv[i].config
          /\ (\E i \in DOMAIN inv : inv[i].pc # "idle") =>
                UNCHANGED <<operations, baseUrl, options, tools, schema>>]_vars

C20_Witness ==
    \E i, j \in DOMAIN inv :
        /\ i # j
        /\ inv[i].pc = "awaiting" /\ inv[j].pc = "done"
        /\ inv[j].response # Undefined /\ ~inv[j].outcome.threw
        /\ inv[i].config.url # inv[j].config.url
        /\ AsAlone(inv[i]) /\ AsAlone(inv[j])

(***************************************************************************)
(* Tool names and registry keys (checked under SpecIndex).                 *)
(***************************************************************************)
\* the operations of a path item, in the order of the verb list
RECURSIVE OpsOfMethods(_, _, _, _)
OpsOfMethods(pathKey, pathItem, m, acc) ==
    IF m > Len(Methods) THEN acc
    ELSE IF Methods[m] \notin DOMAIN pathItem.ops
         THEN OpsOfMethods(pathKey, pathItem, m + 1, acc)
         ELSE OpsOfMethods(pathKey, pathItem, m + 1,
                  Append(acc, [method |-> Methods[m], path |-> pathKey,
                               operation |-> pathItem.ops[Methods[m]]]))

\* the operations of a document, in document order: the operation that the
\* t-th generated tool stands for
RECURSIVE OpsOfPaths(_, _, _)
OpsOfPaths(paths, p, acc) ==
    IF p > Len(paths) THEN acc
    ELSE IF paths[p].item.null
         THEN OpsOfPaths(paths, p + 1, acc)
         ELSE OpsOfPaths(paths, p + 1, OpsOfMethods(paths[p].key, paths[p].item, 1, acc))

\* the name of the t-th tool is the key that parseOperations gives its operation
NameIsKey(ops, t) ==
    tools[t].name = OperationIdOf(ops[t].method, ops[t].path, ops[t].operation)

\* the entry found under the name of the t-th tool is the tool's operation
ReachesOwn(ops, t) ==
    /\ tools[t].name \in DOMAIN operations
    /\ operations[tools[t].name].method = ToUpperCase(ops[t].method)
    /\ operations[tools[t].name].path = ops[t].path

\* C21: once the server serves, there is one tool per operation of the
\* document; the name of each tool equals the key under which the registry
\* indexes its operation, also for operations without declared identifier;
\* the name of every listed tool is a key of the registry (no not-found);
\* and the entry found under it has the method and the path of the tool's
\* own operation.
C21_ToolsReachOperations ==
    phase = "serving" =>
        /\ Len(tools) = Len(OpsOfPaths(schema.paths, 1, <<>>))
        /\ \A t \in 1..Len(tools) :
              /\ NameIsKey(OpsOfPaths(schema.paths, 1, <<>>), t)
              /\ ReachesOwn(OpsOfPaths(schema.paths, 1, <<>>), t)

(***************************************************************************)
(* Enforcement of the required list (checked under Spec).                  *)
(***************************************************************************)
\* the request body of the operation that c names is marked required
BodyRequired(c) ==
    operations[c.name].requestBody.declared /\ operations[c.name].requestBody.required

\* C22: an invocation on an operation whose request body is marked required
\* (the tool lists "body" as required) and whose arguments omit body fails
\* before any outbound request, as one that omits a required parameter
\* does: it ends at once with an error, no request configuration built.
C22_RequiredBodyEnforced ==
    \A i \in DOMAIN inv :
        (/\ Ran(inv[i]) /\ Registered(inv[i])
         /\ BodyRequired(inv[i])
         /\ ArgOf(inv[i].args, "body") = Undefined) =>
            /\ inv[i].pc = "done"
            /\ inv[i].sent = 0
            /\ inv[i].config = Undefined
            /\ inv[i].response = Undefined
            /\ inv[i].outcome.threw

(***************************************************************************)
(* Array-typed parameters are sent as lists (checked under Spec).          *)
(***************************************************************************)
\* the supplied parameters of c that are declared of type array
ArrayParams(c) ==
    {k \in 1..Len(ParamsOf(c)) : ParamsOf(c)[k].type = "array" /\ Supplied(c, k)}

\* C23: the coercion of a value supplied for a parameter of type array
\* either throws or returns a list; an invocation that built its request
\* put a list into the query for each supplied array-typed query parameter,
\* also when the supplied string is itself a JSON literal such as "1" or
\* "{}".
C23_ArrayIsList ==
    \A i \in DOMAIN inv :
        (Ran(inv[i]) /\ Registered(inv[i]) /\ MissingOf(inv[i]) = {}) =>
            /\ \A k \in ArrayParams(inv[i]) :
                  LET r == processParameterValue(ParamsOf(inv[i])[k],
                                                 ArgOf(inv[i].args, ParamsOf(inv[i])[k].name))
                  IN r.threw \/ r.value.t = "array"
            /\ inv[i].config # Undefined =>
                  \A k \in ArrayQueryParams(inv[i]) :
                      inv[i].config.params[ParamsOf(inv[i])[k].name].t = "array"
====
